---- MODULE Spec2Model ----
(***************************************************************************)
(* AI news sentiment analyzer: AINewsAnalyzer.analyze_sentiment and        *)
(* AINewsAnalyzer.process_news_articles (src/src/api_handler.py).          *)
(*                                                                         *)
(* Numbers.  Polarity and subjectivity are reals in the code.  Here they   *)
(* are integers in thousandths (0.1 is 100, 0.05 is 50, 0.07 is 70), and   *)
(* every value a sentiment library returns is a multiple of 10, so that    *)
(* the weighted sum 0.7*t + 0.3*d is the integer (7*t + 3*d) \div 10 with   *)
(* no remainder.  Floating-point rounding is not modelled.                 *)
(*                                                                         *)
(* Values.  A dictionary field holds a string; NoKey stands for a key that *)
(* is not in the dictionary and None for Python's None.                    *)
(***************************************************************************)
EXTENDS Integers, Sequences, FiniteSets, TLC

VARIABLES
    articles,            \* process_news_articles: the argument `articles`
    model,               \* process_news_articles: the argument `model`
    pc,                  \* "loop", "returned" or "raised"
    i,                   \* 1-based position of the for loop in `articles`
    processed_articles,  \* the list the loop appends to
    sentiment_calls,     \* every analyze_sentiment call made so far, in order
    df,                  \* the DataFrame returned (a sequence of rows)
    error,               \* the exception that left the call
    caller,              \* who called get_ai_news_with_sentiment, "none" if nobody
    days,                \* get_ai_news_with_sentiment: the argument `days`
    date_range,          \* fetch_ai_news: <<from_date, to_date>> in days from today
    distribution,        \* display_articles: the lines of the sentiment distribution
    summary              \* display_sentiment_analysis: what the summary shows

\* What the callers and the display functions hold.
frontend == <<caller, days, date_range, distribution, summary>>

vars == <<articles, model, pc, i, processed_articles, sentiment_calls, df, error,
          frontend>>

\* Largest number of raw articles handed to process_news_articles.
MaxArticles == 2

NoKey == "<no key>"
None == "<None>"

----------------------------------------------------------------------------
(* The sentiment libraries.  TextBlob and Vader are external; a text is    *)
(* one of a few named texts and the tables give what each library returns  *)
(* for it.                                                                 *)

Texts == {"t_mild", "t_edge_pos", "t_edge_neg", "t_strong_pos", "t_strong_neg"}

\* blob.sentiment.polarity
TextBlobPolarity(text) ==
    CASE text = "t_mild"       -> 70
      [] text = "t_edge_pos"   -> 100
      [] text = "t_edge_neg"   -> -100
      [] text = "t_strong_pos" -> 500
      [] text = "t_strong_neg" -> -300
      [] OTHER                 -> 0

\* blob.sentiment.subjectivity
TextBlobSubjectivity(text) ==
    CASE text = "t_mild"       -> 500
      [] text = "t_edge_pos"   -> 0
      [] text = "t_edge_neg"   -> 1000
      [] text = "t_strong_pos" -> 600
      [] text = "t_strong_neg" -> 300
      [] OTHER                 -> 0

\* vader.polarity_scores(text)['compound']
VaderCompound(text) ==
    CASE text = "t_mild"       -> 70
      [] text = "t_edge_pos"   -> 50
      [] text = "t_edge_neg"   -> -50
      [] text = "t_strong_pos" -> 100
      [] text = "t_strong_neg" -> -800
      [] OTHER                 -> 0

----------------------------------------------------------------------------
(* Python helpers *)

\* bool(value) of a string or None
Truthy(value) == value # None /\ value # ""

\* dict.get(key): None when the key is missing
get(value) == IF value = NoKey THEN None ELSE value

\* dict.get(key, default)
get_default(value, default) == IF value = NoKey THEN default ELSE value

abs(x) == IF x < 0 THEN -x ELSE x

----------------------------------------------------------------------------
(* analyze_sentiment *)

VaderThreshold == 50
TextBlobThreshold == 100

\* The polarity threshold chosen by the model selector.
polarity_thresh(m) == IF m = "Vader" THEN VaderThreshold ELSE TextBlobThreshold

\* The polarity computed by the selected model.
polarity_of(text, m) ==
    IF m = "Vader" THEN VaderCompound(text) ELSE TextBlobPolarity(text)

\* label_of with the boundary counted as non-neutral (>= for >, <= for <).
label_of_inclusive(polarity, thresh) ==
    IF polarity >= thresh THEN "positive"
    ELSE IF polarity <= -thresh THEN "negative"
    ELSE "neutral"

\* The label of a polarity under a threshold.
label_of(polarity, thresh) ==
    IF polarity > thresh THEN "positive"
    ELSE IF polarity < -thresh THEN "negative"
    ELSE "neutral"

\* confidence_of without the abs.
confidence_of_signed(polarity) == polarity

\* confidence = abs(polarity)
confidence_of(polarity) == abs(polarity)

\* The dictionary analyze_sentiment returns.
analyze_sentiment(text, m) ==
    IF ~Truthy(text)
    THEN [polarity |-> 0, subjectivity |-> 0, label |-> "neutral", confidence |-> 0]
    ELSE [polarity     |-> polarity_of(text, m),
          subjectivity |-> TextBlobSubjectivity(text),
          label        |-> label_of(polarity_of(text, m), polarity_thresh(m)),
          confidence   |-> confidence_of(polarity_of(text, m))]

\* analyze_sentiment_calls with the early return taken for None only.
analyze_sentiment_calls_none_only(text, m) ==
    IF text = None THEN {}
    ELSE IF m = "Vader" THEN {"TextBlob", "Vader"}
    ELSE {"TextBlob"}

\* The sentiment libraries analyze_sentiment constructs and runs on the text.
analyze_sentiment_calls(text, m) ==
    IF ~Truthy(text) THEN {}
    ELSE IF m = "Vader" THEN {"TextBlob", "Vader"}
    ELSE {"TextBlob"}

\* One analyze_sentiment call as the log keeps it.
Call(text, m) ==
    [text |-> text, model |-> m,
     result |-> analyze_sentiment(text, m),
     libraries |-> analyze_sentiment_calls(text, m)]

----------------------------------------------------------------------------
(* Raw articles: the dictionaries of the NewsAPI response.  source is the  *)
(* value of article['source']['name'], NoKey when there is no source.      *)

Timestamps == {"2024-01-01T09:00:00Z", "2024-01-02T09:00:00Z"}

\* Later published-at values, one for each article of the display batches.
LaterTimestamps ==
    {"2024-01-03T09:00:00Z", "2024-01-04T09:00:00Z", "2024-01-05T09:00:00Z",
     "2024-01-06T09:00:00Z", "2024-01-07T09:00:00Z", "2024-01-08T09:00:00Z"}
Unparsable == "not-a-date"

\* A raw article with every key there except, when author is NoKey, author.
Article(title, description, publishedAt, author) ==
    [title |-> title, description |-> description,
     url |-> "https://example.org/a", source |-> "Wired",
     publishedAt |-> publishedAt, author |-> author]

\* The articles that differ in what is scored: every title text with every
\* description text, a null description and an empty one.
ScoringArticles ==
    {Article(t, d, "2024-01-01T09:00:00Z", NoKey) :
        t \in Texts, d \in Texts \cup {None, ""}}

\* The articles that differ in their title and published-at being there.
EssentialFieldArticles ==
    {Article(t, "t_mild", p, "Jane Doe") :
        t \in {NoKey, "", "t_mild"}, p \in Timestamps \cup {NoKey, "", Unparsable}}

\* The articles that lack a key the loop body indexes.
MissingKeyArticles ==
    {[Article(t, "t_mild", "2024-01-02T09:00:00Z", NoKey) EXCEPT ![k] = NoKey] :
        t \in {NoKey, "t_mild"}, k \in {"description", "url", "source"}}

RawArticles == ScoringArticles \cup EssentialFieldArticles \cup MissingKeyArticles

Models == {"TextBlob", "Vader", "BERT"}

BoundedSeq(S, n) == UNION {[1..k -> S] : k \in 0..n}

----------------------------------------------------------------------------
(* process_news_articles: the loop body *)

\* skips with `and` for `or`: only an article missing both fields is skipped.
skips_when_both_missing(article) ==
    ~Truthy(get(article.title)) /\ ~Truthy(get(article.publishedAt))

\* The guard of `continue`: a missing essential field.
skips(article) ==
    ~Truthy(get(article.title)) \/ ~Truthy(get(article.publishedAt))

TitleWeight == 7
DescriptionWeight == 3
CombinedThreshold == 100

\* combined with the two weights exchanged.
combined_swapped(title_value, description_value) ==
    (title_value * DescriptionWeight + description_value * TitleWeight) \div 10

\* combined_polarity and combined_subjectivity: 0.7 * title + 0.3 * description
combined(title_value, description_value) ==
    (title_value * TitleWeight + description_value * DescriptionWeight) \div 10

\* overall_sentiment with the selected model's threshold for the fixed one.
overall_sentiment_model_threshold(combined_polarity) ==
    label_of(combined_polarity, polarity_thresh(model))

\* overall_sentiment with 0.05 for the fixed threshold 0.1.
overall_sentiment_low_threshold(combined_polarity) ==
    label_of(combined_polarity, VaderThreshold)

\* overall_sentiment
overall_sentiment(combined_polarity) ==
    IF combined_polarity > CombinedThreshold THEN "positive"
    ELSE IF combined_polarity < -CombinedThreshold THEN "negative"
    ELSE "neutral"

\* article['description'], article['url'] and article['source']['name'] raise
\* KeyError when the key is missing.
description_KeyError(article) == article.description = NoKey
metadata_KeyError(article) == article.url = NoKey \/ article.source = NoKey

\* The dictionary appended for an accepted article.
processed_article(article, m) ==
    LET title_sentiment == analyze_sentiment(article.title, m)
        description_sentiment == analyze_sentiment(article.description, m)
        combined_polarity ==
            combined(title_sentiment.polarity, description_sentiment.polarity)
        combined_subjectivity ==
            combined(title_sentiment.subjectivity, description_sentiment.subjectivity)
    IN  [title                  |-> article.title,
         description            |-> get_default(article.description, ""),
         url                    |-> article.url,
         source                 |-> article.source,
         published_at           |-> article.publishedAt,
         author                 |-> get_default(article.author, "Unknown"),
         sentiment_label        |-> overall_sentiment(combined_polarity),
         sentiment_polarity     |-> combined_polarity,
         sentiment_subjectivity |-> combined_subjectivity,
         title_sentiment        |-> title_sentiment.label,
         title_polarity         |-> title_sentiment.polarity,
         description_sentiment  |-> description_sentiment.label,
         description_polarity   |-> description_sentiment.polarity]

----------------------------------------------------------------------------
(* process_news_articles: the DataFrame *)

\* pd.to_datetime of one value
to_datetime(value) ==
    CASE value = "2024-01-01T09:00:00Z" -> 1
      [] value = "2024-01-02T09:00:00Z" -> 2
      [] value = "2024-01-03T09:00:00Z" -> 3
      [] value = "2024-01-04T09:00:00Z" -> 4
      [] value = "2024-01-05T09:00:00Z" -> 5
      [] value = "2024-01-06T09:00:00Z" -> 6
      [] value = "2024-01-07T09:00:00Z" -> 7
      [] value = "2024-01-08T09:00:00Z" -> 8
      [] OTHER                          -> 0

\* pd.to_datetime raises on a value it cannot parse.
to_datetime_raises(rows) ==
    \E k \in 1..Len(rows) :
        rows[k].published_at \notin Timestamps \cup LaterTimestamps

\* pd.DataFrame(processed_articles) with df['published_at'] converted: row k
\* of the list gets the index label k - 1.
DataFrame(rows) ==
    [k \in 1..Len(rows) |->
        [index |-> k - 1] @@
        [rows[k] EXCEPT !.published_at = to_datetime(rows[k].published_at)]]

\* The arrangements of a set of positions, as sequences.
RECURSIVE arrangements(_)
arrangements(positions) ==
    IF positions = {} THEN {<<>>}
    ELSE UNION {{<<first>> \o rest : rest \in arrangements(positions \ {first})} :
                   first \in positions}

\* The permutations of 1..n.
index_orders(n) == arrangements(1..n)

\* The order sort_values('published_at', ascending=False) leaves behind.
in_sort_order(frame) ==
    \A k \in 1..(Len(frame) - 1) : frame[k].published_at >= frame[k + 1].published_at

\* sort_values with its result discarded: the frame stays in list order.
sort_values_discarded(frame) == {frame}

\* df.sort_values('published_at', ascending=False).  The default sort kind is
\* quicksort, which is not stable: every arrangement of the rows that is in
\* sort order is a possible result.
sort_values(frame) ==
    {s \in {[k \in 1..Len(frame) |-> frame[p[k]]] : p \in index_orders(Len(frame))} :
        in_sort_order(s)}

----------------------------------------------------------------------------
(* get_ai_news_with_sentiment and fetch_ai_news: the days argument.  A      *)
(* value is a record of its Python type and its items.                     *)

\* The default of the parameter: days: tuple[int] = (7,14)
DefaultDays == [type |-> "tuple", items |-> <<7, 14>>]

\* What display_sentiment_analysis has shown before it is called.
NoSummary ==
    [overall_mood |-> "", most_positive |-> <<>>, most_negative |-> <<>>]

----------------------------------------------------------------------------
(* The state machine of one process_news_articles call *)

Init ==
    /\ articles \in BoundedSeq(RawArticles, MaxArticles)
    /\ model \in Models
    /\ pc = "loop"
    /\ i = 1
    /\ processed_articles = <<>>
    /\ sentiment_calls = <<>>
    /\ df = <<>>
    /\ error = "none"
    /\ caller = "none"
    /\ days = DefaultDays
    /\ date_range = <<>>
    /\ distribution = {}
    /\ summary = NoSummary

\* for article in articles: ... continue
SkipArticle ==
    /\ pc = "loop"
    /\ i <= Len(articles)
    /\ skips(articles[i])
    /\ i' = i + 1
    /\ UNCHANGED <<articles, model, pc, processed_articles, sentiment_calls, df, error>>
    /\ UNCHANGED frontend

\* The loop body for an article that has every field the body indexes.
ScoreArticle ==
    /\ pc = "loop"
    /\ i <= Len(articles)
    /\ ~skips(articles[i])
    /\ ~description_KeyError(articles[i])
    /\ ~metadata_KeyError(articles[i])
    /\ sentiment_calls' = sentiment_calls \o
           <<Call(articles[i].title, model), Call(articles[i].description, model)>>
    /\ processed_articles' =
           Append(processed_articles, processed_article(articles[i], model))
    /\ i' = i + 1
    /\ UNCHANGED <<articles, model, pc, df, error>>
    /\ UNCHANGED frontend

\* article['description'] raises after the title has been analysed.
ScoreArticleDescriptionKeyError ==
    /\ pc = "loop"
    /\ i <= Len(articles)
    /\ ~skips(articles[i])
    /\ description_KeyError(articles[i])
    /\ sentiment_calls' = Append(sentiment_calls, Call(articles[i].title, model))
    /\ pc' = "raised"
    /\ error' = "KeyError"
    /\ UNCHANGED <<articles, model, i, processed_articles, df>>
    /\ UNCHANGED frontend

\* article['url'] or article['source']['name'] raises after both analyses.
ScoreArticleMetadataKeyError ==
    /\ pc = "loop"
    /\ i <= Len(articles)
    /\ ~skips(articles[i])
    /\ ~description_KeyError(articles[i])
    /\ metadata_KeyError(articles[i])
    /\ sentiment_calls' = sentiment_calls \o
           <<Call(articles[i].title, model), Call(articles[i].description, model)>>
    /\ pc' = "raised"
    /\ error' = "KeyError"
    /\ UNCHANGED <<articles, model, i, processed_articles, df>>
    /\ UNCHANGED frontend

\* The loop is over and nothing was accepted: df.empty, returned as it is.
ReturnEmptyFrame ==
    /\ pc = "loop"
    /\ i > Len(articles)
    /\ processed_articles = <<>>
    /\ df' = <<>>
    /\ pc' = "returned"
    /\ UNCHANGED <<articles, model, i, processed_articles, sentiment_calls, error>>
    /\ UNCHANGED frontend

\* pd.to_datetime raises on an unparsable published_at.
ToDatetimeRaises ==
    /\ pc = "loop"
    /\ i > Len(articles)
    /\ processed_articles # <<>>
    /\ to_datetime_raises(processed_articles)
    /\ pc' = "raised"
    /\ error' = "ValueError"
    /\ UNCHANGED <<articles, model, i, processed_articles, sentiment_calls, df>>
    /\ UNCHANGED frontend

\* The conversion, the sort and the return.
SortAndReturn ==
    /\ pc = "loop"
    /\ i > Len(articles)
    /\ processed_articles # <<>>
    /\ ~to_datetime_raises(processed_articles)
    /\ df' \in sort_values(DataFrame(processed_articles))
    /\ pc' = "returned"
    /\ UNCHANGED <<articles, model, i, processed_articles, sentiment_calls, error>>
    /\ UNCHANGED frontend

Next ==
    \/ SkipArticle
    \/ ScoreArticle
    \/ ScoreArticleDescriptionKeyError
    \/ ScoreArticleMetadataKeyError
    \/ ReturnEmptyFrame
    \/ ToDatetimeRaises
    \/ SortAndReturn

Spec == Init /\ [][Next]_vars

----------------------------------------------------------------------------
(* cli_demo.py: display_articles and display_sentiment_analysis, applied   *)
(* to the Batch process_news_articles returned.                            *)

MoodThreshold == 100

\* The combined labels of a frame and how many rows carry each.
labels_in(frame) == {frame[k].sentiment_label : k \in 1..Len(frame)}
label_count(frame, label) ==
    Cardinality({k \in 1..Len(frame) : frame[k].sentiment_label = label})

\* df['sentiment_label'].value_counts(): one entry for each label that occurs.
value_counts(frame) == [label \in labels_in(frame) |-> label_count(frame, label)]

\* (count / len(df)) * 100, in thousandths of a percent, truncated.
percentage(count, frame) == (count * 100 * 1000) \div Len(frame)

\* The lines display_articles prints under "Sentiment Distribution:".
distribution_lines(frame) ==
    {[sentiment  |-> label,
      count      |-> value_counts(frame)[label],
      percentage |-> percentage(value_counts(frame)[label], frame)] :
        label \in DOMAIN value_counts(frame)}

\* The sum of df['sentiment_polarity'].
RECURSIVE polarity_sum(_)
polarity_sum(frame) ==
    IF frame = <<>> THEN 0
    ELSE frame[1].sentiment_polarity + polarity_sum(Tail(frame))

\* overall_mood with the sum compared where the mean should be.
overall_mood_of_sum(frame) ==
    IF polarity_sum(frame) > MoodThreshold THEN "Generally Positive"
    ELSE IF polarity_sum(frame) < -MoodThreshold THEN "Generally Negative"
    ELSE "Generally Neutral"

\* overall_mood: avg_polarity = sum / len(df) against 0.1 and -0.1, compared
\* as sum against threshold * len(df) to stay in integers.
overall_mood(frame) ==
    IF polarity_sum(frame) > MoodThreshold * Len(frame) THEN "Generally Positive"
    ELSE IF polarity_sum(frame) < -MoodThreshold * Len(frame) THEN "Generally Negative"
    ELSE "Generally Neutral"

\* df['sentiment_polarity'].idxmax() and .idxmin(): the index label of the
\* first row, in frame order, that holds the largest or smallest polarity.
idxmax(frame) ==
    LET at_max == {k \in 1..Len(frame) :
                      \A l \in 1..Len(frame) :
                          frame[l].sentiment_polarity <= frame[k].sentiment_polarity}
        first == CHOOSE k \in at_max : \A l \in at_max : k <= l
    IN  frame[first].index

idxmin(frame) ==
    LET at_min == {k \in 1..Len(frame) :
                      \A l \in 1..Len(frame) :
                          frame[l].sentiment_polarity >= frame[k].sentiment_polarity}
        first == CHOOSE k \in at_min : \A l \in at_min : k <= l
    IN  frame[first].index

\* loc reading the label as a position (df.iloc).
loc_by_position(frame, label) == frame[label + 1]

\* df.loc[label]: the row that carries the index label.
loc(frame, label) ==
    frame[CHOOSE k \in 1..Len(frame) : frame[k].index = label]

\* The article shown as "Most Positive", if one is shown.
most_positive(frame) ==
    IF \E k \in 1..Len(frame) : frame[k].sentiment_label = "positive"
    THEN <<loc(frame, idxmax(frame))>>
    ELSE <<>>

\* The article shown as "Most Negative", if one is shown.
most_negative(frame) ==
    IF \E k \in 1..Len(frame) : frame[k].sentiment_label = "negative"
    THEN <<loc(frame, idxmin(frame))>>
    ELSE <<>>

\* display_articles(df)
DisplayArticles ==
    /\ pc = "returned"
    /\ distribution' = IF df = <<>> THEN distribution ELSE distribution_lines(df)
    /\ pc' = "articles_displayed"
    /\ UNCHANGED <<articles, model, i, processed_articles, sentiment_calls, df, error,
                   caller, days, date_range, summary>>

\* display_sentiment_analysis(df), alone (--sentiment-only) or after
\* display_articles
DisplaySentimentAnalysis ==
    /\ pc \in {"returned", "articles_displayed"}
    /\ summary' = IF df = <<>> THEN summary
                  ELSE [overall_mood  |-> overall_mood(df),
                        most_positive |-> most_positive(df),
                        most_negative |-> most_negative(df)]
    /\ pc' = "analysis_displayed"
    /\ UNCHANGED <<articles, model, i, processed_articles, sentiment_calls, df, error,
                   caller, days, date_range, distribution>>

\* Largest number of articles in a Batch handed to the display functions.
MaxBatch == 5

\* Well-formed articles of different combined polarity, each with its own
\* published-at.
DisplayBatchArticles ==
    {Article("t_strong_pos", "t_strong_pos", "2024-01-03T09:00:00Z", NoKey),
     Article("t_strong_pos", "",             "2024-01-04T09:00:00Z", NoKey),
     Article("t_edge_pos",   "t_strong_pos", "2024-01-05T09:00:00Z", NoKey),
     Article("t_mild",       "t_strong_pos", "2024-01-06T09:00:00Z", NoKey),
     Article("t_strong_neg", "t_strong_neg", "2024-01-07T09:00:00Z", NoKey),
     Article("t_strong_neg", "t_edge_neg",   "2024-01-08T09:00:00Z", NoKey)}

\* The inputs of the display batches: up to MaxBatch different articles in
\* any order.
DisplayInputs ==
    {input \in BoundedSeq(DisplayBatchArticles, MaxBatch) :
        \A a, b \in 1..Len(input) : a # b => input[a] # input[b]}

\* The states in which process_news_articles has returned on a display input.
InitDisplay ==
    /\ articles \in DisplayInputs
    /\ model \in Models
    /\ pc = "returned"
    /\ i = Len(articles) + 1
    /\ processed_articles =
           [k \in 1..Len(articles) |-> processed_article(articles[k], model)]
    /\ sentiment_calls =
           [k \in 1..(2 * Len(articles)) |->
               IF k % 2 = 1 THEN Call(articles[(k + 1) \div 2].title, model)
               ELSE Call(articles[k \div 2].description, model)]
    /\ df \in (IF articles = <<>> THEN {<<>>}
               ELSE sort_values(DataFrame(processed_articles)))
    /\ error = "none"
    /\ caller = "none"
    /\ days = DefaultDays
    /\ date_range = <<>>
    /\ distribution = {}
    /\ summary = NoSummary

NextDisplay ==
    \/ DisplayArticles
    \/ DisplaySentimentAnalysis

SpecDisplay == InitDisplay /\ [][NextDisplay]_vars

----------------------------------------------------------------------------
(* The callers of get_ai_news_with_sentiment: main of cli_demo.py,         *)
(* load_news_data of streamlit_app.py, and a call that leaves days at its  *)
(* default.  Dates are days relative to today.                             *)

\* Largest number of articles the NewsAPI response holds.
MaxFetched == 1

Callers == {"cli", "dashboard", "default"}

\* --days (type=int) and the "Days to analyze" slider (1 to 30).
IntegerDays == {[type |-> "int", items |-> <<n>>] : n \in {1, 7, 30}}

\* The days argument each caller passes.
days_passed_by(c) == IF c = "default" THEN {DefaultDays} ELSE IntegerDays

\* The model argument each caller passes: the dashboard passes the selected
\* option, the others leave the default "Textblob".
model_passed_by(c) == IF c = "dashboard" THEN Models ELSE {"Textblob"}

\* days[0] and days[1] raise TypeError on an int.
subscript_raises(d) == d.type = "int"

\* from_date and to_date of fetch_ai_news, exchanged when from_date is later.
date_range_of(d) ==
    LET from_date == 0 - d.items[1]
        to_date == 0 - d.items[2]
    IN  IF from_date > to_date THEN <<to_date, from_date>>
        ELSE <<from_date, to_date>>

InitPipeline ==
    /\ caller \in Callers
    /\ days \in days_passed_by(caller)
    /\ model \in model_passed_by(caller)
    /\ articles \in BoundedSeq(RawArticles, MaxFetched)
    /\ pc = "main"
    /\ i = 1
    /\ processed_articles = <<>>
    /\ sentiment_calls = <<>>
    /\ df = <<>>
    /\ error = "none"
    /\ date_range = <<>>
    /\ distribution = {}
    /\ summary = NoSummary

\* fetch_ai_news raises while it computes the date range.
GetNewsTypeError ==
    /\ pc = "main"
    /\ subscript_raises(days)
    /\ pc' = "raised"
    /\ error' = "TypeError"
    /\ UNCHANGED <<articles, model, i, processed_articles, sentiment_calls, df,
                   caller, days, date_range, distribution, summary>>

\* The fetch yields no article: get_ai_news_with_sentiment returns an empty
\* DataFrame.
FetchNoArticles ==
    /\ pc = "main"
    /\ ~subscript_raises(days)
    /\ articles = <<>>
    /\ date_range' = date_range_of(days)
    /\ df' = <<>>
    /\ pc' = "returned"
    /\ UNCHANGED <<articles, model, i, processed_articles, sentiment_calls, error,
                   caller, days, distribution, summary>>

\* The fetch yields articles: process_news_articles is entered.
FetchArticles ==
    /\ pc = "main"
    /\ ~subscript_raises(days)
    /\ articles # <<>>
    /\ date_range' = date_range_of(days)
    /\ pc' = "loop"
    /\ UNCHANGED <<articles, model, i, processed_articles, sentiment_calls, df, error,
                   caller, days, distribution, summary>>

\* except Exception: the CLI prints the error and exits with status 1, the
\* dashboard returns the message and shows st.error.
CallerReportsError ==
    /\ pc = "raised"
    /\ caller \in {"cli", "dashboard"}
    /\ pc' = "error_reported"
    /\ UNCHANGED <<articles, model, i, processed_articles, sentiment_calls, df, error,
                   frontend>>

NextPipeline ==
    \/ GetNewsTypeError
    \/ FetchNoArticles
    \/ FetchArticles
    \/ CallerReportsError
    \/ Next

SpecPipeline == InitPipeline /\ [][NextPipeline]_vars

----------------------------------------------------------------------------
(* Properties *)

\* The analyze_sentiment calls made so far.
CallsMade == {sentiment_calls[k] : k \in 1..Len(sentiment_calls)}

\* The rows of the returned Batch.
BatchRows == {df[k] : k \in 1..Len(df)}

\* A value that is missing or empty.
MissingOrEmpty(value) == value \in {NoKey, None, ""}

\* The input articles that have a title and a published-at, in input order.
WithEssentialFields ==
    SelectSeq(articles,
              LAMBDA a : ~MissingOrEmpty(a.title) /\ ~MissingOrEmpty(a.publishedAt))

\* C1: for a non-empty text under the lexicon or the rule-based model, the
\* label is positive exactly when polarity > threshold, negative exactly when
\* polarity < -threshold and neutral otherwise, with threshold 0.1 for
\* TextBlob and 0.05 for Vader; polarity 0.07 is neutral under TextBlob and
\* positive under Vader.
C1_LabelFollowsModelThreshold ==
    \A c \in CallsMade :
        (~MissingOrEmpty(c.text) /\ c.model \in {"TextBlob", "Vader"}) =>
            LET threshold == IF c.model = "Vader" THEN 50 ELSE 100
                polarity == c.result.polarity
            IN  /\ c.result.label \in {"positive", "negative", "neutral"}
                /\ (c.result.label = "positive") <=> (polarity > threshold)
                /\ (c.result.label = "negative") <=> (polarity < -threshold)
                /\ (c.result.label = "neutral") <=>
                       (polarity <= threshold /\ polarity >= -threshold)
                /\ (polarity = 70 /\ c.model = "TextBlob") => c.result.label = "neutral"
                /\ (polarity = 70 /\ c.model = "Vader") => c.result.label = "positive"

\* A Vader run that has scored a text of polarity 0.07 as positive and a text
\* of polarity exactly 0.05 as neutral.
C1_Witness ==
    /\ model = "Vader"
    /\ \E c \in CallsMade : c.result.polarity = 70 /\ c.result.label = "positive"
    /\ \E c \in CallsMade : c.result.polarity = 50 /\ c.result.label = "neutral"

\* C2: for an empty or absent text analyze_sentiment returns polarity 0.0,
\* subjectivity 0.0, label neutral and confidence 0.0 under every model
\* selector, and runs no sentiment library.
C2_EmptyTextIsNeutralWithoutModel ==
    \A c \in CallsMade :
        c.text \in {None, ""} =>
            /\ c.result.polarity = 0
            /\ c.result.subjectivity = 0
            /\ c.result.label = "neutral"
            /\ c.result.confidence = 0
            /\ c.libraries = {}

\* One run has analysed a None description and an empty description.
C2_Witness ==
    /\ \E c \in CallsMade : c.text = None
    /\ \E c \in CallsMade : c.text = ""

\* C3: for every accepted article the combined polarity is 0.7 * title
\* polarity + 0.3 * description polarity and the combined subjectivity is
\* 0.7 * title subjectivity + 0.3 * description subjectivity, the title and
\* description values being what analyze_sentiment returned for the article's
\* title and description under the selected model.
C3_RowIsWeighted(row, k) ==
    LET title_call == sentiment_calls[2 * k - 1]
        description_call == sentiment_calls[2 * k]
    IN  /\ title_call.text = row.title /\ title_call.model = model
        /\ description_call.model = model
        /\ row.title_polarity = title_call.result.polarity
        /\ row.description_polarity = description_call.result.polarity
        /\ 10 * row.sentiment_polarity =
               7 * title_call.result.polarity + 3 * description_call.result.polarity
        /\ 10 * row.sentiment_subjectivity =
               7 * title_call.result.subjectivity
                   + 3 * description_call.result.subjectivity

C3_CombinedIsWeightedAverage ==
    /\ \A k \in 1..Len(processed_articles) :
           C3_RowIsWeighted(processed_articles[k], k)
    /\ \A row \in BatchRows : C3_RowIsWeighted(row, row.index + 1)

\* A returned Batch with an article whose title and description polarities
\* are both non-zero and differ, and whose subjectivities differ.
C3_Witness ==
    /\ pc = "returned"
    /\ \E row \in BatchRows :
           /\ row.title_polarity # 0
           /\ row.description_polarity # 0
           /\ row.title_polarity # row.description_polarity
           /\ row.sentiment_subjectivity # 0

\* C4: for every article of the Batch, under TextBlob and under Vader, the
\* combined label is positive iff combined polarity > 0.1, negative iff
\* combined polarity < -0.1 and neutral otherwise.
C4_CombinedLabelUsesFixedThreshold ==
    (pc = "returned" /\ model \in {"TextBlob", "Vader"}) =>
        \A row \in BatchRows :
            /\ row.sentiment_label \in {"positive", "negative", "neutral"}
            /\ (row.sentiment_label = "positive") <=> (row.sentiment_polarity > 100)
            /\ (row.sentiment_label = "negative") <=> (row.sentiment_polarity < -100)
            /\ (row.sentiment_label = "neutral") <=>
                   (row.sentiment_polarity <= 100 /\ row.sentiment_polarity >= -100)

\* A Batch scored with Vader holding an article whose combined polarity lies
\* between 0.05 and 0.1 and is labelled neutral, and one labelled negative.
C4_Witness ==
    /\ pc = "returned"
    /\ model = "Vader"
    /\ \E row \in BatchRows :
           /\ row.sentiment_polarity > 50
           /\ row.sentiment_polarity <= 100
           /\ row.sentiment_label = "neutral"
    /\ \E row \in BatchRows : row.sentiment_label = "negative"

\* C5: the returned Batch is sorted by published-at descending: for every
\* adjacent pair (a, b), a.published_at >= b.published_at.
C5_BatchSortedDescending ==
    pc = "returned" =>
        \A k \in 1..(Len(df) - 1) : df[k].published_at >= df[k + 1].published_at

\* A returned Batch whose first row is newer than its second and came later
\* in the input.
C5_Witness ==
    /\ pc = "returned"
    /\ Len(df) = 2
    /\ df[1].published_at > df[2].published_at
    /\ df[1].index > df[2].index

\* C6: no article whose title or published-at is missing or empty is in the
\* returned Batch, such articles are skipped before any scoring, and every
\* input article that has both is in the Batch.
C6_OnlyAndAllEssentialArticles ==
    /\ \A c \in CallsMade :
           \E j \in 1..Len(articles) :
               /\ ~MissingOrEmpty(articles[j].title)
               /\ ~MissingOrEmpty(articles[j].publishedAt)
               /\ c.text \in {articles[j].title, articles[j].description}
    /\ pc = "returned" =>
           /\ Len(df) = Len(WithEssentialFields)
           /\ Len(sentiment_calls) = 2 * Len(WithEssentialFields)
           /\ \A row \in BatchRows : ~MissingOrEmpty(row.title)
           /\ \A k \in 1..Len(WithEssentialFields) :
                  \E row \in BatchRows :
                      /\ row.index = k - 1
                      /\ row.title = WithEssentialFields[k].title
                      /\ row.published_at =
                             to_datetime(WithEssentialFields[k].publishedAt)
                      /\ sentiment_calls[2 * k - 1].text = WithEssentialFields[k].title

\* A returned Batch of one article from an input of two, the other one
\* skipped for its empty or missing title.
C6_Witness ==
    /\ pc = "returned"
    /\ Len(articles) = 2
    /\ Len(df) = 1
    /\ \E j \in 1..2 : MissingOrEmpty(articles[j].title)

\* C7: scoring with a model selector that is not a supported model fails
\* fast: no article is scored with it.
C7_UnsupportedModelFailsFast ==
    model \notin {"TextBlob", "Textblob", "Vader"} => processed_articles = <<>>

\* An input record that has its title and published-at but is malformed or
\* unscoreable: no description, url or source key, or an unparsable
\* published-at.
Malformed(a) ==
    /\ ~MissingOrEmpty(a.title)
    /\ ~MissingOrEmpty(a.publishedAt)
    /\ \/ a.description = NoKey
       \/ a.url = NoKey
       \/ a.source = NoKey
       \/ a.publishedAt = Unparsable

\* C8: with one malformed or unscoreable record in the input,
\* process_news_articles raises no exception and returns a Batch holding every
\* other article that has a title and a published-at.
C8_OneMalformedArticleDoesNotAbort ==
    (Cardinality({j \in 1..Len(articles) : Malformed(articles[j])}) = 1) =>
        /\ pc # "raised"
        /\ pc = "returned" =>
               \A j \in 1..Len(articles) :
                   (/\ ~MissingOrEmpty(articles[j].title)
                    /\ ~MissingOrEmpty(articles[j].publishedAt)
                    /\ ~Malformed(articles[j])) =>
                       \E row \in BatchRows : row.title = articles[j].title

\* C9: an article with a title and a published-at whose description is not
\* there, null or empty is accepted, its description sub-score is neutral
\* with polarity 0.0, and its combined polarity is 0.7 * title polarity.
C9_MissingDescriptionIsNeutral ==
    /\ \A k \in 1..Len(processed_articles) :
           MissingOrEmpty(processed_articles[k].description) =>
               /\ processed_articles[k].description_polarity = 0
               /\ processed_articles[k].description_sentiment = "neutral"
               /\ 10 * processed_articles[k].sentiment_polarity =
                      7 * processed_articles[k].title_polarity
    /\ \A j \in 1..Len(articles) :
           (/\ ~MissingOrEmpty(articles[j].title)
            /\ articles[j].publishedAt \in Timestamps
            /\ articles[j].url # NoKey
            /\ articles[j].source # NoKey
            /\ MissingOrEmpty(articles[j].description)) =>
               ~(pc = "raised" /\ i = j)

\* C10: every score analyze_sentiment returns, for any text and any model,
\* has confidence = abs(polarity), so confidence is never negative.
C10_ConfidenceIsAbsPolarity ==
    \A c \in CallsMade :
        /\ c.result.confidence >= 0
        /\ \/ c.result.polarity >= 0 /\ c.result.confidence = c.result.polarity
           \/ c.result.polarity < 0 /\ c.result.confidence = -c.result.polarity

\* One run has scored a text of negative polarity and an empty text.
C10_Witness ==
    /\ \E c \in CallsMade : c.result.polarity < 0 /\ c.result.confidence > 0
    /\ \E c \in CallsMade : c.text = "" /\ c.result.confidence = 0

\* C11: accepted articles with equal published-at values are in the Batch in
\* the order they had in the input (the descending sort is stable).
C11_TiesKeepInputOrder ==
    pc = "returned" =>
        \A k, l \in 1..Len(df) :
            (k < l /\ df[k].published_at = df[l].published_at) =>
                df[k].index < df[l].index

\* C16: a positive combined label comes with a positive title or description
\* label, and a negative combined label with a negative title or description
\* label, for every row accepted and every row of the Batch, under TextBlob
\* and under Vader.
C16_RowIsExplained(row) ==
    /\ row.sentiment_label = "positive" =>
           (row.title_sentiment = "positive" \/ row.description_sentiment = "positive")
    /\ row.sentiment_label = "negative" =>
           (row.title_sentiment = "negative" \/ row.description_sentiment = "negative")

C16_CombinedLabelHasSubLabel ==
    model \in {"TextBlob", "Vader"} =>
        /\ \A k \in 1..Len(processed_articles) : C16_RowIsExplained(processed_articles[k])
        /\ \A row \in BatchRows : C16_RowIsExplained(row)

\* A Batch scored with Vader in which one article is positive on its title
\* alone, its description being negative, and another is combined neutral
\* with both sub-labels positive.
C16_Witness ==
    /\ pc = "returned"
    /\ model = "Vader"
    /\ \E row \in BatchRows :
           /\ row.sentiment_label = "neutral"
           /\ row.title_sentiment = "positive"
           /\ row.description_sentiment = "positive"
    /\ \E row \in BatchRows :
           /\ row.sentiment_label = "negative"
           /\ row.title_sentiment = "negative"
           /\ row.description_sentiment # "negative"

\* The rows of the Batch that carry a combined label.
RowsLabelled(label) == {row \in BatchRows : row.sentiment_label = label}

\* C12: the "most positive" lookup yields the article of largest combined
\* polarity among the positive-labelled articles, the "most negative" lookup
\* the article of smallest combined polarity among the negative-labelled
\* ones, and each yields nothing when no article carries the label.
C12_ExtremalLookups ==
    (pc = "analysis_displayed" /\ df # <<>>) =>
        /\ IF RowsLabelled("positive") = {}
           THEN summary.most_positive = <<>>
           ELSE /\ Len(summary.most_positive) = 1
                /\ summary.most_positive[1] \in RowsLabelled("positive")
                /\ \A row \in RowsLabelled("positive") :
                       row.sentiment_polarity
                           <= summary.most_positive[1].sentiment_polarity
        /\ IF RowsLabelled("negative") = {}
           THEN summary.most_negative = <<>>
           ELSE /\ Len(summary.most_negative) = 1
                /\ summary.most_negative[1] \in RowsLabelled("negative")
                /\ \A row \in RowsLabelled("negative") :
                       row.sentiment_polarity
                           >= summary.most_negative[1].sentiment_polarity

\* A summary of a Batch with positive and negative articles whose most
\* positive article is neither the first row nor the first article of the
\* input.
C12_Witness ==
    /\ pc = "analysis_displayed"
    /\ RowsLabelled("negative") # {}
    /\ Len(summary.most_positive) = 1
    /\ summary.most_positive[1] # df[1]
    /\ summary.most_positive[1].index # 0
    /\ df[summary.most_positive[1].index + 1] # summary.most_positive[1]

\* A summary of a Batch without a positive article shows no most positive one.
C12_WitnessNothing ==
    /\ pc = "analysis_displayed"
    /\ df # <<>>
    /\ RowsLabelled("positive") = {}
    /\ summary.most_positive = <<>>

\* C13: for a non-empty Batch the label distribution reports, for each of
\* positive, negative and neutral, a label carried by no article included,
\* the number of articles with the label and the percentage
\* 100 * count / batch size.
C13_DistributionReportsEveryLabel ==
    (pc = "articles_displayed" /\ df # <<>>) =>
        \A label \in {"positive", "negative", "neutral"} :
            \E line \in distribution :
                /\ line.sentiment = label
                /\ line.count = Cardinality(RowsLabelled(label))
                /\ line.percentage * Len(df) = 100000 * line.count

\* The Batch of the scenario: 5 articles, 3 positive and 2 negative.
ThreePositiveTwoNegative ==
    /\ Len(df) = 5
    /\ Cardinality({k \in 1..5 : df[k].sentiment_label = "positive"}) = 3
    /\ Cardinality({k \in 1..5 : df[k].sentiment_label = "negative"}) = 2

\* C14, as claimed: a Batch of 5 articles, 3 of them positive and 2 negative,
\* has the overall mood positive.
C14_ThreeOfFivePositiveIsPositiveMood ==
    (pc = "analysis_displayed" /\ ThreePositiveTwoNegative) =>
        summary.overall_mood = "Generally Positive"

\* C14, amended: for a Batch of 5 articles, 3 of them positive and 2
\* negative, the overall mood is the three-way rule with threshold 0.1 on the
\* mean combined polarity: positive exactly when the mean is > 0.1, negative
\* exactly when it is < -0.1, neutral otherwise.
C14_MoodFollowsMeanPolarity ==
    (pc = "analysis_displayed" /\ ThreePositiveTwoNegative) =>
        LET total == df[1].sentiment_polarity + df[2].sentiment_polarity
                         + df[3].sentiment_polarity + df[4].sentiment_polarity
                         + df[5].sentiment_polarity
        IN  /\ (summary.overall_mood = "Generally Positive") <=> (total > 5 * 100)
            /\ (summary.overall_mood = "Generally Negative") <=> (total < -(5 * 100))
            /\ (summary.overall_mood = "Generally Neutral") <=>
                   (total <= 5 * 100 /\ total >= -(5 * 100))

\* A summary of a 3-positive, 2-negative Batch whose mood is positive.
C14_Witness ==
    /\ pc = "analysis_displayed"
    /\ ThreePositiveTwoNegative
    /\ summary.overall_mood = "Generally Positive"

\* C15: called with the integer number of days the CLI and the dashboard
\* pass, get_ai_news_with_sentiment computes the date range and reaches the
\* fetch without raising, so these callers never take the error path.
C15_IntegerDaysReachTheFetch ==
    caller \in {"cli", "dashboard"} =>
        /\ error # "TypeError"
        /\ pc # "error_reported"
        /\ pc # "main" => date_range # <<>>

====
